---- MODULE Spec2Model ----
(***************************************************************************)
(* Model of the chat client: the App component's session state (message    *)
(* log, isLoading flag, current mode), the MessageInput form state, the    *)
(* asynchronous handleSendMessage handler and the geminiService adapter.   *)
(* Every invocation of handleSendMessage is a "flight" with its own        *)
(* program counter, so overlapping invocations are representable.          *)
(***************************************************************************)
EXTENDS Integers, Sequences, FiniteSets, TLC

\* ------------------------------------------------------------------ bounds
\* Accepted submissions (invocations of handleSendMessage) per behaviour.
MaxTurns == 2

Subs == 1..MaxTurns

\* ------------------------------------------------------------------- types
Standard == "Standard Chat (Gemini 3 Pro)"
SearchGrounded == "Search Grounded (Gemini 3 Flash)"
FastResponse == "Fast Response (Gemini Flash Lite)"
ChatMode == {Standard, SearchGrounded, FastResponse}

\* Texts typed into the textarea: empty, whitespace only, padded text.
Texts == {<< >>, <<" ">>, <<" ", "a", " ">>}

IsWhitespace(c) == c = " "

\* String.prototype.trim: strips leading and trailing whitespace.
RECURSIVE TrimStart(_)
TrimStart(t) ==
  IF t # << >> /\ IsWhitespace(Head(t)) THEN TrimStart(Tail(t)) ELSE t

RECURSIVE TrimEnd(_)
TrimEnd(t) ==
  IF t # << >> /\ IsWhitespace(t[Len(t)]) THEN TrimEnd(SubSeq(t, 1, Len(t) - 1)) ELSE t

Trim(t) == TrimEnd(TrimStart(t))

\* Files the user can pick in the file dialog; NoFile is a cancelled dialog.
NoFile == "none"
ImageFile == "image/png"
OtherFile == "text/plain"
PickedFiles == {NoFile, ImageFile, OtherFile}

\* file.type.startsWith('image/')
IsImageType(f) == f = ImageFile

\* ------------------------------------------------------- message literals
DecodeErrorText == <<"Error processing file. Please try again.">>
SearchAdvisoryText ==
  <<"File uploads are not supported in Search Grounded mode. Please switch to Standard Chat for multimodal input.">>
FastAdvisoryText ==
  <<"File uploads are not supported in Fast Response mode. Please switch to Standard Chat for multimodal input.">>
GenericErrorText == <<"An error occurred while communicating with the AI.">>
NotFoundSignature == "Requested entity was not found."
CredentialText ==
  <<"API key issue: Requested entity was not found. Please ensure your API key is correct and associated with a paid GCP project. You can update it by clicking 'Select API Key' in the AI Studio menu.">>
NoTextResponse == <<"No text response received.">>

\* An error message is a sequence of fragments; includes() looks for a fragment.
Includes(msg, fragment) == \E i \in 1..Len(msg) : msg[i] = fragment

\* Messages of the errors the SDK (client constructor or generateContent)
\* can raise: the repository does not decide them.
SdkErrors ==
  { <<"404 ", NotFoundSignature>>,
    <<"Quota exceeded.">> }

\* What generateContent resolves with: response.text may be undefined.
SdkResponses ==
  { [hasText |-> TRUE, text |-> <<"generated text">>],
    [hasText |-> FALSE, text |-> << >>] }

\* response.text ?? 'No text response received.'
getResponseText(response) ==
  IF response.hasText THEN response.text ELSE NoTextResponse

\* ------------------------------------------------------------ mode policy
StandardCapability == "generateContentStandard"
SearchCapability == "generateContentSearchGrounded"
FastCapability == "generateContentFast"

ModelOf(capability) ==
  CASE capability = StandardCapability -> "gemini-3-pro-preview"
    [] capability = SearchCapability -> "gemini-3-flash-preview"
    [] capability = FastCapability -> "gemini-flash-lite-latest"

\* Mutant: the FastResponse case falls through to the default case.
CapabilityFastFallsThrough(mode) ==
  CASE mode = SearchGrounded -> SearchCapability
    [] OTHER -> StandardCapability

\* The switch on currentMode: which geminiService method a mode calls.
Capability(mode) ==
  CASE mode = SearchGrounded -> SearchCapability
    [] mode = FastResponse -> FastCapability
    [] OTHER -> StandardCapability

\* Mutant: the FastResponse case loses its attachment check.
RejectsAttachmentFastUnchecked(mode, hasFileData) ==
  mode = SearchGrounded /\ hasFileData

\* The `if (fileData)` short-circuits of the SearchGrounded and FastResponse cases.
RejectsAttachment(mode, hasFileData) ==
  mode \in {SearchGrounded, FastResponse} /\ hasFileData

AdvisoryText(mode) ==
  IF mode = SearchGrounded THEN SearchAdvisoryText ELSE FastAdvisoryText

\* The adapter's catch: the caught error is logged and a new Error with a
\* fixed message is thrown; the caught error's message is not carried over.
AdapterError(capability, caught) ==
  CASE capability = StandardCapability ->
         <<"Failed to get response from ", ModelOf(capability), ". Check console for details.">>
    [] capability = SearchCapability ->
         <<"Failed to get search-grounded response from ", ModelOf(capability), ". Check console for details.">>
    [] capability = FastCapability ->
         <<"Failed to get fast response from ", ModelOf(capability), ". Check console for details.">>

\* ------------------------------------------------------------------- state
VARIABLES
  messages,       \* App: the message log
  isLoading,      \* App: the flight flag
  currentMode,    \* App: the selected mode
  inputText,      \* MessageInput: textarea content
  selectedFile,   \* MessageInput: NoFile or the selected file
  filePreviewUrl, \* MessageInput: whether a form preview URL is held
  flight,         \* per invocation of handleSendMessage: its locals, its position and,
                  \* as history, how it left (outcome), the error the SDK raised
                  \* (raised) and how openSelectKey settled (settled)
  nextSub,        \* the next invocation's index
  gatewayCalls,   \* geminiService methods invoked, in order
  revoked,        \* per invocation: URL.revokeObjectURL calls on its preview URL
  reselectCalls,  \* per invocation: window.aistudio.openSelectKey calls
  hasAistudio,    \* whether window.aistudio.openSelectKey exists
  lastEvent       \* history: what the last event was, one of the three ways
                  \* handleSubmit can go or "other"

vars == <<messages, isLoading, currentMode, inputText, selectedFile, filePreviewUrl,
          flight, nextSub, gatewayCalls, revoked, reselectCalls, hasAistudio, lastEvent>>

appVars == <<messages, isLoading, currentMode>>
inputVars == <<inputText, selectedFile, filePreviewUrl>>
turnVars == <<flight, nextSub, gatewayCalls, revoked, reselectCalls>>

NoError == << >>

IdleFlight ==
  [pc |-> "unused", text |-> << >>, file |-> FALSE, mode |-> Standard,
   fileData |-> FALSE, url |-> FALSE, outcome |-> "none", raised |-> NoError,
   settled |-> "none"]

Active == {"decoding", "calling", "reselecting"}

ActiveFlights == {s \in Subs : flight[s].pc \in Active}

Init ==
  /\ messages = << >>
  /\ isLoading = FALSE
  /\ currentMode = Standard
  /\ inputText = << >>
  /\ selectedFile = NoFile
  /\ filePreviewUrl = FALSE
  /\ flight = [s \in Subs |-> IdleFlight]
  /\ nextSub = 1
  /\ gatewayCalls = << >>
  /\ revoked = [s \in Subs |-> 0]
  /\ reselectCalls = [s \in Subs |-> 0]
  /\ hasAistudio \in BOOLEAN
  /\ lastEvent = "other"

\* --------------------------------------------------------------- reducers
\* setMessages((prev) => [...prev, turn]); `sub` records the invocation that
\* appended the turn, `id` stands for crypto.randomUUID().
AppendTurn(log, sender, sub, text, hasImage) ==
  Append(log, [id |-> Len(log) + 1, sender |-> sender, sub |-> sub,
               text |-> text, imageUrl |-> hasImage])

\* `if (filePreviewUrl) URL.revokeObjectURL(filePreviewUrl)` for invocation s.
RevokeIfUrl(rev, s, hasUrl) ==
  IF hasUrl THEN [rev EXCEPT ![s] = @ + 1] ELSE rev

\* Mutant: the advisory turn is appended to the log as rendered, not to the
\* log holding the user turn (a non-functional setMessages update).
EnterSwitchStaleLog(s, log, f) ==
  IF RejectsAttachment(f.mode, f.fileData)
  THEN /\ messages' = AppendTurn(messages, "ai", s, AdvisoryText(f.mode), FALSE)
       /\ isLoading' = FALSE
       /\ revoked' = RevokeIfUrl(RevokeIfUrl(revoked, s, f.url), s, f.url)
       /\ flight' = [flight EXCEPT ![s] = [f EXCEPT !.pc = "done", !.outcome = "rejected"]]
       /\ UNCHANGED gatewayCalls
  ELSE /\ messages' = log
       /\ gatewayCalls' = Append(gatewayCalls,
            [sub |-> s, capability |-> Capability(f.mode),
             attachment |-> (Capability(f.mode) = StandardCapability /\ f.fileData)])
       /\ flight' = [flight EXCEPT ![s] = [f EXCEPT !.pc = "calling"]]
       /\ UNCHANGED <<isLoading, revoked>>

\* Entering the switch for invocation s with the user turn already in `log`:
\* either the policy short-circuit (advisory turn, flag cleared, URL revoked
\* at the branch and again by the finally block) or the capability call.
EnterSwitch(s, log, f) ==
  IF RejectsAttachment(f.mode, f.fileData)
  THEN /\ messages' = AppendTurn(log, "ai", s, AdvisoryText(f.mode), FALSE)
       /\ isLoading' = FALSE
       /\ revoked' = RevokeIfUrl(RevokeIfUrl(revoked, s, f.url), s, f.url)
       /\ flight' = [flight EXCEPT ![s] = [f EXCEPT !.pc = "done", !.outcome = "rejected"]]
       /\ UNCHANGED gatewayCalls
  ELSE /\ messages' = log
       /\ gatewayCalls' = Append(gatewayCalls,
            [sub |-> s, capability |-> Capability(f.mode),
             attachment |-> (Capability(f.mode) = StandardCapability /\ f.fileData)])
       /\ flight' = [flight EXCEPT ![s] = [f EXCEPT !.pc = "calling"]]
       /\ UNCHANGED <<isLoading, revoked>>

\* The finally block of invocation s applied to log `log`.
Finally(s, log, f) ==
  /\ messages' = log
  /\ isLoading' = FALSE
  /\ revoked' = RevokeIfUrl(revoked, s, f.url)
  /\ flight' = [flight EXCEPT ![s] = [f EXCEPT !.pc = "done"]]

\* ------------------------------------------------------------ MessageInput
\* handleTextChange; the textarea is disabled while isLoading.
handleTextChange(t) ==
  /\ ~isLoading
  /\ t # inputText
  /\ inputText' = t
  /\ UNCHANGED <<appVars, selectedFile, filePreviewUrl, turnVars, hasAistudio>>
  /\ lastEvent' = "other"

\* handleFileChange; the file input is rendered only in a multimodal mode and
\* disabled while isLoading.
handleFileChange(f) ==
  /\ currentMode = Standard
  /\ ~isLoading
  /\ IF f # NoFile /\ IsImageType(f)
     THEN selectedFile' = f /\ filePreviewUrl' = TRUE
     ELSE selectedFile' = NoFile /\ filePreviewUrl' = FALSE
  /\ UNCHANGED <<appVars, inputText, turnVars, hasAistudio>>
  /\ lastEvent' = "other"

\* clearFile, from the preview's clear button.
clearFile ==
  /\ filePreviewUrl
  /\ selectedFile' = NoFile
  /\ filePreviewUrl' = FALSE
  /\ UNCHANGED <<appVars, inputText, turnVars, hasAistudio>>
  /\ lastEvent' = "other"

\* Mutant: the mode switch also resets the conversation.
setCurrentModeResetsLog(m) ==
  /\ ~isLoading
  /\ m # currentMode
  /\ currentMode' = m
  /\ messages' = << >>
  /\ UNCHANGED <<isLoading, inputVars, turnVars, hasAistudio>>
  /\ lastEvent' = "other"

\* onModeChange = setCurrentMode; the selector is disabled while isLoading.
setCurrentMode(m) ==
  /\ ~isLoading
  /\ m # currentMode
  /\ currentMode' = m
  /\ UNCHANGED <<messages, isLoading, inputVars, turnVars, hasAistudio>>
  /\ lastEvent' = "other"

\* `if (isLoading) return;`
SubmitBlocked == isLoading

\* Mutant: the text is tested without trim().
HasContentUntrimmed(text, file) == text # << >> \/ file # NoFile

\* `inputText.trim() || selectedFile`
HasContent(text, file) == Trim(text) # << >> \/ file # NoFile

\* handleSubmit while a response is in flight: returns at once.
SubmitDropped ==
  /\ SubmitBlocked
  /\ lastEvent' = "submitDropped"
  /\ UNCHANGED <<appVars, inputVars, turnVars, hasAistudio>>

\* handleSubmit with nothing to send: falls through the if.
SubmitEmpty ==
  /\ ~SubmitBlocked
  /\ ~HasContent(inputText, selectedFile)
  /\ lastEvent' = "submitEmpty"
  /\ UNCHANGED <<appVars, inputVars, turnVars, hasAistudio>>

\* Mutant: handleSendMessage does not raise the flag.
LoadingAfterSendUnset == isLoading

\* `setIsLoading(true)`, the first statement of handleSendMessage.
LoadingAfterSend == TRUE

\* handleSubmit accepting: onSendMessage(inputText.trim(), selectedFile) runs
\* handleSendMessage up to its first await, then the input is reset.
SubmitAccepted ==
  /\ ~SubmitBlocked
  /\ HasContent(inputText, selectedFile)
  /\ nextSub <= MaxTurns
  /\ LET s == nextSub
         hasFile == selectedFile # NoFile
         f == [IdleFlight EXCEPT !.text = Trim(inputText), !.file = hasFile,
                                 !.mode = currentMode]
     IN IF hasFile
        THEN \* setIsLoading(true); await fileToBase64(file)
             /\ isLoading' = LoadingAfterSend
             /\ flight' = [flight EXCEPT ![s] = [f EXCEPT !.pc = "decoding"]]
             /\ UNCHANGED <<messages, gatewayCalls, revoked>>
        ELSE \* setIsLoading(true); user turn; capability call
             /\ isLoading' = LoadingAfterSend
             /\ messages' = AppendTurn(messages, "user", s, f.text, FALSE)
             /\ gatewayCalls' = Append(gatewayCalls,
                  [sub |-> s, capability |-> Capability(f.mode), attachment |-> FALSE])
             /\ flight' = [flight EXCEPT ![s] = [f EXCEPT !.pc = "calling"]]
             /\ UNCHANGED revoked
  /\ nextSub' = nextSub + 1
  /\ inputText' = << >>
  /\ selectedFile' = NoFile
  /\ filePreviewUrl' = FALSE
  /\ lastEvent' = "submitAccepted"
  /\ UNCHANGED <<currentMode, reselectCalls, hasAistudio>>

\* ------------------------------------------------------- handleSendMessage
\* fileToBase64 resolved: fileData and the preview URL are set, the user turn
\* is appended and the switch is entered.
DecodeResolved(s) ==
  /\ flight[s].pc = "decoding"
  /\ LET f == [flight[s] EXCEPT !.fileData = TRUE, !.url = TRUE]
     IN EnterSwitch(s, AppendTurn(messages, "user", s, f.text, TRUE), f)
  /\ UNCHANGED <<currentMode, inputVars, nextSub, reselectCalls, hasAistudio>>
  /\ lastEvent' = "other"

\* Mutant: the decode catch returns without clearing the flag.
DecodeRejectedKeepsLoading(s) ==
  /\ flight[s].pc = "decoding"
  /\ messages' = AppendTurn(messages, "ai", s, DecodeErrorText, FALSE)
  /\ flight' = [flight EXCEPT ![s].pc = "done", ![s].outcome = "decodeFailed"]
  /\ UNCHANGED <<isLoading, currentMode, inputVars, nextSub, gatewayCalls, revoked,
                 reselectCalls, hasAistudio>>
  /\ lastEvent' = "other"

\* fileToBase64 rejected: error turn, flag cleared, return.
DecodeRejected(s) ==
  /\ flight[s].pc = "decoding"
  /\ messages' = AppendTurn(messages, "ai", s, DecodeErrorText, FALSE)
  /\ isLoading' = FALSE
  /\ flight' = [flight EXCEPT ![s].pc = "done", ![s].outcome = "decodeFailed"]
  /\ UNCHANGED <<currentMode, inputVars, nextSub, gatewayCalls, revoked,
                 reselectCalls, hasAistudio>>
  /\ lastEvent' = "other"

\* The capability call resolved: AI turn with the response text, then finally.
GatewayResolved(s, response) ==
  /\ flight[s].pc = "calling"
  /\ Finally(s, AppendTurn(messages, "ai", s, getResponseText(response), FALSE),
             [flight[s] EXCEPT !.outcome = "success"])
  /\ UNCHANGED <<currentMode, inputVars, nextSub, gatewayCalls, reselectCalls,
                 hasAistudio>>
  /\ lastEvent' = "other"

\* The catch block of handleSendMessage for invocation s and error message msg.
\* f is the invocation's record with the failure noted in it.
Catch(s, msg, f) ==
  IF Includes(msg, NotFoundSignature)
  THEN IF hasAistudio
       THEN \* await window.aistudio.openSelectKey()
            /\ reselectCalls' = [reselectCalls EXCEPT ![s] = @ + 1]
            /\ flight' = [flight EXCEPT ![s] = [f EXCEPT !.pc = "reselecting"]]
            /\ UNCHANGED <<messages, isLoading, revoked>>
       ELSE /\ Finally(s, AppendTurn(messages, "ai", s, CredentialText, FALSE), f)
            /\ UNCHANGED reselectCalls
  ELSE LET errorMessage == IF msg # << >> THEN <<"AI Error: ">> \o msg ELSE GenericErrorText
       IN /\ Finally(s, AppendTurn(messages, "ai", s, errorMessage, FALSE), f)
          /\ UNCHANGED reselectCalls

\* generateContent rejected with `raised`: the adapter rethrows its own error.
GatewayRejected(s, raised) ==
  /\ flight[s].pc = "calling"
  /\ LET capability == Capability(flight[s].mode)
     IN Catch(s, AdapterError(capability, raised),
              [flight[s] EXCEPT !.outcome = "serviceError", !.raised = raised])
  /\ UNCHANGED <<currentMode, inputVars, nextSub, gatewayCalls, hasAistudio>>
  /\ lastEvent' = "other"

\* getGenAIClient() threw: it runs before the adapter's try, so the error
\* reaches handleSendMessage as raised.
ClientInitFailed(s, raised) ==
  /\ flight[s].pc = "calling"
  /\ Catch(s, raised, [flight[s] EXCEPT !.outcome = "clientError", !.raised = raised])
  /\ UNCHANGED <<currentMode, inputVars, nextSub, gatewayCalls, hasAistudio>>
  /\ lastEvent' = "other"

\* openSelectKey resolved: the credential turn is appended, then finally.
ReselectResolved(s) ==
  /\ flight[s].pc = "reselecting"
  /\ Finally(s, AppendTurn(messages, "ai", s, CredentialText, FALSE),
             [flight[s] EXCEPT !.settled = "resolved"])
  /\ UNCHANGED <<currentMode, inputVars, nextSub, gatewayCalls, reselectCalls,
                 hasAistudio>>
  /\ lastEvent' = "other"

\* openSelectKey rejected inside the catch block: the handler leaves through
\* finally without appending a turn.
ReselectRejected(s) ==
  /\ flight[s].pc = "reselecting"
  /\ Finally(s, messages, [flight[s] EXCEPT !.settled = "rejected"])
  /\ UNCHANGED <<currentMode, inputVars, nextSub, gatewayCalls, reselectCalls,
                 hasAistudio>>
  /\ lastEvent' = "other"

DecodeSettles == \E s \in Subs : DecodeResolved(s) \/ DecodeRejected(s)

GatewaySettles ==
  \E s \in Subs :
    \/ \E r \in SdkResponses : GatewayResolved(s, r)
    \/ \E e \in SdkErrors : GatewayRejected(s, e) \/ ClientInitFailed(s, e)

Next ==
  \/ \E t \in Texts : handleTextChange(t)
  \/ \E f \in PickedFiles : handleFileChange(f)
  \/ clearFile
  \/ \E m \in ChatMode : setCurrentMode(m)
  \/ SubmitDropped
  \/ SubmitEmpty
  \/ SubmitAccepted
  \/ \E s \in Subs : DecodeResolved(s)
  \/ \E s \in Subs : DecodeRejected(s)
  \/ \E s \in Subs, r \in SdkResponses : GatewayResolved(s, r)
  \/ \E s \in Subs, e \in SdkErrors : GatewayRejected(s, e)
  \/ \E s \in Subs, e \in SdkErrors : ClientInitFailed(s, e)
  \/ \E s \in Subs : ReselectResolved(s)
  \/ \E s \in Subs : ReselectRejected(s)

Spec == Init /\ [][Next]_vars

\* The event loop runs every continuation whose awaited promise has settled;
\* the decode and the capability call are assumed to settle.  Nothing makes
\* window.aistudio.openSelectKey() settle.
FairSpec ==
  /\ Spec
  /\ WF_vars(DecodeSettles)
  /\ WF_vars(GatewaySettles)

\* ----------------------------------------------------------------- claims
SubmitEvents == {"submitDropped", "submitEmpty", "submitAccepted"}

NoAttachmentModes == {SearchGrounded, FastResponse}

\* The turns invocation s appended, in log order, and where they are.
TurnsOf(s) == SelectSeq(messages, LAMBDA m : m.sub = s)
PositionsOf(s) == {i \in 1..Len(messages) : messages[i].sub = s}
CallsOf(s) == SelectSeq(gatewayCalls, LAMBDA c : c.sub = s)

IsPrefix(a, b) == Len(a) <= Len(b) /\ SubSeq(b, 1, Len(a)) = a

\* C1: a submission with a decoded attachment under SearchGrounded or
\* FastResponse has appended exactly a user turn immediately followed by the
\* mode's advisory AI turn, has finished, and no capability was invoked for it.
C1_PolicyRejection ==
  \A s \in Subs :
    (flight[s].fileData /\ flight[s].mode \in NoAttachmentModes) =>
      /\ flight[s].pc = "done"
      /\ CallsOf(s) = << >>
      /\ Len(TurnsOf(s)) = 2
      /\ TurnsOf(s)[1].sender = "user"
      /\ TurnsOf(s)[2].sender = "ai"
      /\ TurnsOf(s)[2].text = AdvisoryText(flight[s].mode)
      /\ \E i \in 1..(Len(messages) - 1) : PositionsOf(s) = {i, i + 1}

C1_Witness ==
  \E s \in Subs :
    /\ flight[s].fileData
    /\ flight[s].mode = FastResponse
    /\ flight[s].outcome = "rejected"
    /\ Len(TurnsOf(s)) = 2

\* C2: at most one invocation of handleSendMessage is unresolved at any time,
\* and a submit event arriving while isLoading is true changes neither the
\* log, the flag, the capability calls nor any invocation.
C2_SingleFlight ==
  /\ [](Cardinality(ActiveFlights) <= 1)
  /\ [][(isLoading /\ lastEvent' \in SubmitEvents) =>
          UNCHANGED <<messages, isLoading, gatewayCalls, flight, nextSub>>]_vars

C2_Witness ==
  /\ lastEvent = "submitDropped"
  /\ isLoading
  /\ Cardinality(ActiveFlights) = 1

\* C3 (as claimed): once an invocation that created a preview URL has
\* finished, the URL has been revoked exactly once.
C3_ReleasedOnce ==
  \A s \in Subs :
    (flight[s].pc = "done" /\ flight[s].url) => revoked[s] = 1

\* C4 (as claimed): when the capability call failed on a service error whose
\* message contains the not-found signature, the invocation's AI turn carries
\* the credential message, openSelectKey was called once and the capability
\* was called once.
C4_CredentialDiagnostic ==
  \A s \in Subs :
    (/\ flight[s].pc \in {"done", "reselecting"}
     /\ flight[s].outcome = "serviceError"
     /\ Includes(flight[s].raised, NotFoundSignature)) =>
      /\ reselectCalls[s] = 1
      /\ Len(CallsOf(s)) = 1
      /\ flight[s].pc = "done" =>
           /\ Len(TurnsOf(s)) = 2
           /\ TurnsOf(s)[2].text = CredentialText

C6_EmptySubmitNoOp ==
  [][(lastEvent' \in SubmitEvents /\ Trim(inputText) = << >> /\ selectedFile = NoFile) =>
       UNCHANGED <<messages, isLoading, currentMode, gatewayCalls, flight, nextSub>>]_vars

C6_Witness ==
  /\ lastEvent = "submitEmpty"
  /\ inputText = <<" ">>
  /\ selectedFile = NoFile
  /\ ~isLoading

IdsAscend == \A i \in 1..Len(messages) : messages[i].id = i

PrecededByOwnUserTurn(i) ==
  /\ i > 1
  /\ messages[i - 1].sender = "user"
  /\ messages[i - 1].sub = messages[i].sub

\* C7 (as claimed): turns are in append order and every AI turn, the decode
\* error turn included, directly follows the user turn of its submission.
C7_EveryAiTurnPreceded ==
  /\ IdsAscend
  /\ \A i \in 1..Len(messages) :
       messages[i].sender = "ai" => PrecededByOwnUserTurn(i)

\* C7 (amended): turns are in append order; every AI turn other than the
\* decode error turn directly follows the user turn of its submission, and a
\* submission whose decode failed has no user turn in the log.
C7_AiTurnPrecededUnlessDecodeError ==
  /\ IdsAscend
  /\ \A i \in 1..Len(messages) :
       messages[i].sender = "ai" =>
         IF flight[messages[i].sub].outcome = "decodeFailed"
         THEN /\ messages[i].text = DecodeErrorText
              /\ PositionsOf(messages[i].sub) = {i}
         ELSE PrecededByOwnUserTurn(i)

C7_Witness ==
  /\ Len(messages) = 3
  /\ messages[1].sender = "user"
  /\ messages[2].sender = "ai"
  /\ messages[2].text = AdvisoryText(SearchGrounded)
  /\ messages[3].sender = "ai"
  /\ messages[3].text = DecodeErrorText

\* C8: every step leaves the previous log as a prefix of the new one, and a
\* step that changes the mode changes neither the log, the flag, the
\* invocations nor the capability calls.
C8_AppendOnly ==
  /\ [][IsPrefix(messages, messages')]_vars
  /\ [][currentMode' # currentMode =>
          UNCHANGED <<messages, isLoading, flight, gatewayCalls>>]_vars

C8_Witness ==
  \E s \in Subs :
    /\ flight[s].pc = "done"
    /\ flight[s].mode = Standard
    /\ nextSub = s + 1
    /\ Len(TurnsOf(s)) = 2
    /\ currentMode = FastResponse

\* C9: a submission whose attachment decode failed has appended exactly one
\* AI error turn and no user turn, invoked no capability and created no
\* preview URL, and the step that handles the failure clears the flag.
C9_DecodeFailure ==
  /\ [](\A s \in Subs :
          flight[s].outcome = "decodeFailed" =>
            /\ flight[s].pc = "done"
            /\ Len(TurnsOf(s)) = 1
            /\ TurnsOf(s)[1].sender = "ai"
            /\ TurnsOf(s)[1].text = DecodeErrorText
            /\ CallsOf(s) = << >>
            /\ ~flight[s].url
            /\ revoked[s] = 0)
  /\ [][\A s \in Subs :
          (flight[s].pc = "decoding" /\ flight'[s].outcome = "decodeFailed") =>
            ~isLoading']_vars

C9_Witness ==
  \E s \in Subs :
    /\ flight[s].outcome = "decodeFailed"
    /\ flight[s].file
    /\ Len(TurnsOf(s)) = 1
    /\ ~isLoading

C11_OneCallOfSelectedCapability ==
  /\ \A s \in Subs : Len(CallsOf(s)) <= 1
  /\ \A i \in 1..Len(gatewayCalls) :
       LET c == gatewayCalls[i]
           mode == flight[c.sub].mode
       IN /\ mode = Standard => c.capability = StandardCapability
          /\ mode = SearchGrounded => c.capability = SearchCapability
          /\ mode = FastResponse => c.capability = FastCapability
          /\ c.attachment => (c.capability = StandardCapability /\ flight[c.sub].fileData)
          /\ flight[c.sub].pc \in Active => currentMode = mode

C11_Witness ==
  \E s, t \in Subs :
    /\ flight[s].pc = "done"
    /\ flight[s].outcome = "serviceError"
    /\ flight[s].mode = FastResponse
    /\ Len(CallsOf(s)) = 1
    /\ flight[t].pc = "done"
    /\ flight[t].mode = Standard
    /\ Len(CallsOf(t)) = 1
    /\ CallsOf(t)[1].attachment

AiTurns == SelectSeq(messages, LAMBDA m : m.sender = "ai")
UserTurns == SelectSeq(messages, LAMBDA m : m.sender = "user")
Accepted == 1..(nextSub - 1)

C12_ExceptReselectRejected ==
  ~isLoading =>
    /\ Len(AiTurns) =
         Cardinality({s \in Accepted : flight[s].settled # "rejected"})
    /\ Len(UserTurns) =
         Cardinality({s \in Accepted : flight[s].outcome # "decodeFailed"})

====
